---- MODULE Spec2Model ----
(***************************************************************************)
(* Model of the 4Field backlog robot.                                      *)
(*                                                                         *)
(*   src/src/scraper_4field_async.py  Automation4Field: the browser        *)
(*       session controller (login, wait-for-page, wait-for-loader,        *)
(*       export-and-download, download validation, close) and main.        *)
(*   src/src/process_data_4field.py   ExcelFileHendler: file discovery,    *)
(*       strategy selection, encoding fallback, normalization.             *)
(*                                                                         *)
(* Every call into Playwright or the file system is one step whose outcome *)
(* (returns / raises) is chosen by the environment.  Python values are     *)
(* written as strings: "True", "False", "None"; "raised" marks a call that *)
(* ended with an exception, "pending" a call that has not ended yet.       *)
(***************************************************************************)
EXTENDS Integers, Sequences, FiniteSets, TLC

VARIABLES
    caller,             \* who drives the controller: "main" (__main__) or "free" (any caller)
    pc,                 \* position of the single thread of control
    runs,               \* invocations of execute_process_4field so far
    closes,             \* invocations of close() so far
    lastOp,             \* the controller operation that returned last
    playwright_engine,  \* self.playwright_engine (0 is None, k the k-th engine)
    context,            \* self.context           (0 is None)
    page,               \* self.page              (0 is None)
    enginesLive,        \* engines started and not stopped
    contextsLive,       \* browser contexts launched and not closed
    wpSite,             \* which call of _wait_for_page is running
    now,                \* time elapsed inside _wait_for_page, in TimeUnit steps
    cond,               \* state of every awaited condition of _load_page_coroutines
    probe,              \* what the timeout fallback of _wait_for_page saw
    wpResult,           \* value returned by _wait_for_page
    loader,             \* what the progress indicator really did
    loaderResult,       \* value returned by _wait_for_loader
    credIdx,            \* position of _login's loop over the credentials
    events,             \* page actions of the current workflow run, in order
    artifact,           \* the browser's own copy of the download exists
    savedFile,          \* the file at download_dir / suggested_filename
    validResult,        \* value returned by _validate_download_file
    loginResult,        \* value returned by _login
    exportResult,       \* value returned by _export_data
    execResult,         \* value returned by execute_process_4field
    closeResult,        \* how the last close() ended
    directory,          \* downloads directory: modification time of each file (0: no such file)
    content,            \* what the file being loaded holds
    update_time,        \* self.update_time of the ExcelFileHendler
    column_types_cache, \* self._column_types_cache
    calls,              \* invocations of process_most_recent_file so far
    lpc,                \* position inside the ExcelFileHendler
    file_path,          \* the argument of process_most_recent_file ("None": not given)
    target,             \* target_path of process_most_recent_file
    encIdx,             \* position of the loop over the candidate encodings
    successful_encoding,\* _load_large_csv's successful_encoding
    chunkIdx,           \* the chunk the second pass reads next
    total_rows,         \* _load_large_csv's total_rows
    processed,          \* len(chunks): chunks normalized and appended so far
    chunks,             \* _load_large_csv's list chunks: the normalized chunks, in order
    reader,             \* the encoding and dtype the second pass reads its chunks with
    failure,            \* the failure the current load ran into, if any
    result,             \* the FileProcessingResult returned, or how the call ended
    raw_df,             \* the table as read from the file, before any normalization
    df,                 \* the table in hand: raw_df, then what _process_dataframe returned
    applied,            \* invocations of _process_dataframe so far
    raised,             \* "none", or the exception _process_dataframe raised
    consumed,           \* the files process_most_recent_file returned a table for
    delResult           \* value returned by delete_most_recent_file

vars == <<caller, pc, runs, closes, lastOp, playwright_engine, context, page,
          enginesLive, contextsLive, wpSite, now, cond, probe, wpResult,
          loader, loaderResult, credIdx, events, artifact, savedFile, validResult,
          loginResult, exportResult, execResult, closeResult,
          directory, content, update_time, column_types_cache, calls, lpc,
          file_path, target,
          encIdx, successful_encoding, chunkIdx, total_rows, processed, chunks,
          reader, failure, result, raw_df, df, applied, raised, consumed, delResult>>

scraperVars == <<caller, pc, runs, closes, lastOp, playwright_engine, context, page,
                 enginesLive, contextsLive, wpSite, now, cond, probe, wpResult,
                 loader, loaderResult, credIdx, events, artifact, savedFile,
                 validResult, loginResult, exportResult, execResult, closeResult>>

normVars == <<raw_df, df, applied, raised>>

delVars == <<consumed, delResult>>

handlerVars == <<directory, content, update_time, column_types_cache, calls, lpc,
                 file_path, target, encIdx, successful_encoding, chunkIdx, total_rows,
                 processed, chunks, reader, failure, result, normVars, delVars>>

----------------------------------------------------------------------------
(* Bounds of the model *)

\* how many times a free caller invokes execute_process_4field
MaxRuns == 2
\* how many times a free caller invokes close()
MaxCloses == 2

\* how many times process_most_recent_file is invoked on one handler
MaxCalls == 2
\* how many chunks the second pass of a large-file load reads at most
MaxChunks == 2
\* the newest modification time in the downloads directory
MaxMtime == 2
\* how many rows a table given to _process_dataframe has
NRows == 2
\* how many times _process_dataframe is applied in a row to one table
MaxApplications == 2

(* Program constants of ExcelFileHendler *)

CSV_SIZE_TRESHOLD == 10
CHUNK_SIZE == 10000
AVG_LINE_SIZE_KB == 1

(* Program constants of Automation4Field, in units of 5 seconds *)

\* _wait_for_page(timeout = 90)
PageTimeout == 18
\* wait_for_selector(selector, state='visible', timeout=25000)
SelectorTimeout == 5

----------------------------------------------------------------------------
(* self.selectors and the check_elements lists of the three calls *)

LoadStates == {"networkidle", "readyState"}

CheckElements(site) ==
    CASE site = "login" -> <<"login_input", "password_input">>
      [] site = "home"  -> <<"home_check">>
      [] site = "view"  -> <<"priority_chart", "export_icon">>
      [] OTHER          -> <<>>

Range(s) == {s[i] : i \in DOMAIN s}

Selectors(site) == Range(CheckElements(site))

\* tasks of _load_page_coroutines: two load states, then one per selector
Tasks(site) == LoadStates \cup Selectors(site)

Credentials == <<"login_input", "password_input">>

NoConds == [c \in {} |-> "pending"]
NoLoader == [appeared |-> "unknown", gone |-> "unknown"]

ctrlVars    == <<playwright_engine, context, page>>
resVars     == <<enginesLive, contextsLive>>
waitVars    == <<wpSite, now, cond, probe, wpResult>>
ldrVars     == <<loader, loaderResult>>
fileVars    == <<artifact, savedFile, validResult>>
harnessVars == <<caller, runs, closes, lastOp>>

Ev(op, what, ok) == [op |-> op, target |-> what, ok |-> ok]

----------------------------------------------------------------------------
(* Initial state: Automation4Field.__init__, nothing started *)

InitController ==
    /\ pc = "idle"
    /\ runs = 0
    /\ closes = 0
    /\ lastOp = "none"
    /\ playwright_engine = 0
    /\ context = 0
    /\ page = 0
    /\ enginesLive = {}
    /\ contextsLive = {}
    /\ wpSite = "none"
    /\ now = 0
    /\ cond = NoConds
    /\ probe = NoConds
    /\ wpResult = "pending"
    /\ loader = NoLoader
    /\ loaderResult = "pending"
    /\ credIdx = 1
    /\ events = <<>>
    /\ artifact = "absent"
    /\ savedFile = "absent"
    /\ validResult = "pending"
    /\ loginResult = "pending"
    /\ exportResult = "pending"
    /\ execResult = "pending"
    /\ closeResult = "pending"

----------------------------------------------------------------------------
(* execute_process_4field is entered: by main (once) or by a free caller *)

execute_process_4field_call ==
    /\ pc = "idle"
    /\ runs < MaxRuns
    /\ caller = "main" => runs = 0
    /\ pc' = "setup_start"
    /\ runs' = runs + 1
    /\ events' = <<>>
    /\ credIdx' = 1
    /\ loginResult' = "pending"
    /\ exportResult' = "pending"
    /\ execResult' = "pending"
    /\ wpSite' = "none" /\ now' = 0 /\ cond' = NoConds /\ probe' = NoConds
    /\ wpResult' = "pending"
    /\ loader' = NoLoader /\ loaderResult' = "pending"
    /\ validResult' = "pending"
    /\ UNCHANGED <<caller, closes, lastOp, ctrlVars, resVars, artifact, savedFile,
                   closeResult>>
    /\ UNCHANGED handlerVars

----------------------------------------------------------------------------
(* _login: every statement is inside try ... except Exception: return False *)

LoginReturn(value) ==
    /\ loginResult' = value
    /\ pc' = "exec_if_login"

LoginRaise == LoginReturn("False")

\* _wait_for_page is entered for one of its three call sites
WaitCall(site) ==
    /\ wpSite' = site
    /\ now' = 0
    /\ cond' = [c \in Tasks(site) |-> "pending"]
    /\ probe' = NoConds
    /\ wpResult' = "pending"
    /\ pc' = "wait_page"

\* the locals of a finished _wait_for_page call are gone once its value is used
WaitForget ==
    /\ wpSite' = "none"
    /\ now' = 0
    /\ cond' = NoConds
    /\ probe' = NoConds
    /\ wpResult' = "pending"

\* the locals of a finished workflow run are gone once it returned to its caller
RunForget ==
    /\ events' = <<>>
    /\ credIdx' = 1
    /\ validResult' = "pending"

\* self.playwright_engine = await async_playwright().start()
setup_start_engine ==
    /\ pc = "setup_start"
    /\ \/ /\ playwright_engine' = runs
          /\ enginesLive' = enginesLive \cup {runs}
          /\ pc' = "setup_mkdir"
          /\ UNCHANGED loginResult
       \/ /\ LoginRaise
          /\ UNCHANGED <<playwright_engine, enginesLive>>
    /\ UNCHANGED <<harnessVars, context, page, contextsLive, waitVars, ldrVars,
                   credIdx, events, fileVars, exportResult, execResult, closeResult>>
    /\ UNCHANGED handlerVars

\* profile_path.mkdir(exist_ok=True)
setup_mkdir ==
    /\ pc = "setup_mkdir"
    /\ \/ pc' = "setup_launch" /\ UNCHANGED loginResult
       \/ LoginRaise
    /\ UNCHANGED <<harnessVars, ctrlVars, resVars, waitVars, ldrVars, credIdx,
                   events, fileVars, exportResult, execResult, closeResult>>
    /\ UNCHANGED handlerVars

\* self.context = await ...chromium.launch_persistent_context(...)
setup_launch_context ==
    /\ pc = "setup_launch"
    /\ \/ /\ context' = playwright_engine
          /\ contextsLive' = contextsLive \cup {playwright_engine}
          /\ pc' = "setup_init_script"
          /\ UNCHANGED loginResult
       \/ /\ LoginRaise
          /\ UNCHANGED <<context, contextsLive>>
    /\ UNCHANGED <<harnessVars, playwright_engine, page, enginesLive, waitVars,
                   ldrVars, credIdx, events, fileVars, exportResult, execResult,
                   closeResult>>
    /\ UNCHANGED handlerVars

\* await self.context.add_init_script(...)
setup_init_script ==
    /\ pc = "setup_init_script"
    /\ \/ pc' = "setup_page" /\ UNCHANGED loginResult
       \/ LoginRaise
    /\ UNCHANGED <<harnessVars, ctrlVars, resVars, waitVars, ldrVars, credIdx,
                   events, fileVars, exportResult, execResult, closeResult>>
    /\ UNCHANGED handlerVars

\* self.page = self.context.pages[0] if self.context.pages else await new_page()
setup_page ==
    /\ pc = "setup_page"
    /\ \/ page' = context /\ pc' = "login_goto" /\ UNCHANGED loginResult
       \/ LoginRaise /\ UNCHANGED page
    /\ UNCHANGED <<harnessVars, playwright_engine, context, resVars, waitVars,
                   ldrVars, credIdx, events, fileVars, exportResult, execResult,
                   closeResult>>
    /\ UNCHANGED handlerVars

\* await page.goto(self.login_url); then _wait_for_page("Pagina de Login", ...)
login_goto ==
    /\ pc = "login_goto"
    /\ \/ /\ events' = Append(events, Ev("goto", "login_url", TRUE))
          /\ WaitCall("login")
          /\ UNCHANGED loginResult
       \/ /\ events' = Append(events, Ev("goto", "login_url", FALSE))
          /\ LoginRaise
          /\ UNCHANGED waitVars
    /\ UNCHANGED <<harnessVars, ctrlVars, resVars, ldrVars, credIdx, fileVars,
                   exportResult, execResult, closeResult>>
    /\ UNCHANGED handlerVars

----------------------------------------------------------------------------
(* _load_page_coroutines and _wait_for_page *)

\* results = await asyncio.gather(*tasks, return_exceptions=False)
\* return all(not isinstance(result, Exception) for result in results)
\* The first task that throws makes gather raise at once; otherwise it returns
\* when every task has resolved, and then no result is an exception.
load_page_coroutines(c) ==
    IF \E t \in DOMAIN c : c[t] = "thrown" THEN "raise"
    ELSE IF \A t \in DOMAIN c : c[t] = "resolved" THEN "True"
    ELSE "pending"

\* the probe with count() >= 0 in place of count() > 0
FallbackProbeAnyCount(elements, seen) ==
    IF elements = <<>> THEN "False"
    ELSE IF seen[Head(elements)] \in {"present", "absent"} THEN "True"
    ELSE "False"

\* the loop of the except asyncio.TimeoutError branch: the first selector whose
\* locator counts an element returns True; a probe that raises is skipped
RECURSIVE FallbackProbe(_, _)
FallbackProbe(elements, seen) ==
    IF elements = <<>> THEN "False"
    ELSE IF seen[Head(elements)] = "present" THEN "True"
    ELSE FallbackProbe(Tail(elements), seen)

\* the value _wait_for_page returns once wait_for has ended with `outcome`
wait_for_page_result(outcome, elements, seen) ==
    CASE outcome = "True"    -> "True"
      [] outcome = "False"   -> "False"
      [] outcome = "raise"   -> "False"
      [] outcome = "timeout" -> FallbackProbe(elements, seen)

\* one awaited condition resolves
cond_resolve ==
    /\ pc = "wait_page"
    /\ \E t \in DOMAIN cond :
          /\ cond[t] = "pending"
          /\ cond' = [cond EXCEPT ![t] = "resolved"]
    /\ UNCHANGED <<harnessVars, pc, ctrlVars, resVars, wpSite, now, probe, wpResult,
                   ldrVars, credIdx, events, fileVars, loginResult, exportResult,
                   execResult, closeResult>>
    /\ UNCHANGED handlerVars

\* one awaited condition throws (its own timeout, or any page error)
cond_throw ==
    /\ pc = "wait_page"
    /\ \E t \in DOMAIN cond :
          /\ cond[t] = "pending"
          /\ cond' = [cond EXCEPT ![t] = "thrown"]
    /\ UNCHANGED <<harnessVars, pc, ctrlVars, resVars, wpSite, now, probe, wpResult,
                   ldrVars, credIdx, events, fileVars, loginResult, exportResult,
                   execResult, closeResult>>
    /\ UNCHANGED handlerVars

\* time passes while wait_for is still waiting; wait_for_selector(timeout=25000)
\* does not stay pending beyond its own timeout
tick ==
    /\ pc = "wait_page"
    /\ load_page_coroutines(cond) = "pending"
    /\ now < PageTimeout
    /\ \A t \in Selectors(wpSite) : cond[t] = "pending" => now < SelectorTimeout
    /\ now' = now + 1
    /\ UNCHANGED <<harnessVars, pc, ctrlVars, resVars, wpSite, cond, probe, wpResult,
                   ldrVars, credIdx, events, fileVars, loginResult, exportResult,
                   execResult, closeResult>>
    /\ UNCHANGED handlerVars

\* wait_for ends because _load_page_coroutines returned or raised
wait_for_page_return ==
    /\ pc = "wait_page"
    /\ load_page_coroutines(cond) # "pending"
    /\ wpResult' = wait_for_page_result(load_page_coroutines(cond),
                                        CheckElements(wpSite), probe)
    /\ pc' = "wait_returned"
    /\ UNCHANGED <<harnessVars, ctrlVars, resVars, wpSite, now, cond, probe, ldrVars,
                   credIdx, events, fileVars, loginResult, exportResult, execResult,
                   closeResult>>
    /\ UNCHANGED handlerVars

\* wait_for ends with asyncio.TimeoutError; the selectors are probed once more
wait_for_page_timeout ==
    /\ pc = "wait_page"
    /\ load_page_coroutines(cond) = "pending"
    /\ now = PageTimeout
    /\ \E seen \in [Selectors(wpSite) -> {"present", "absent", "raises"}] :
          /\ probe' = seen
          /\ wpResult' = wait_for_page_result("timeout", CheckElements(wpSite), seen)
    /\ pc' = "wait_returned"
    /\ UNCHANGED <<harnessVars, ctrlVars, resVars, wpSite, now, cond, ldrVars,
                   credIdx, events, fileVars, loginResult, exportResult, execResult,
                   closeResult>>
    /\ UNCHANGED handlerVars

----------------------------------------------------------------------------
(* _login, after the login page was awaited *)

\* if not login_ready: return False
login_after_wait_login ==
    /\ pc = "wait_returned"
    /\ wpSite = "login"
    /\ IF wpResult = "True"
       THEN pc' = "login_fill" /\ credIdx' = 1 /\ UNCHANGED loginResult
       ELSE LoginReturn("False") /\ UNCHANGED credIdx
    /\ events' = Append(events, Ev("wait_for_page", wpSite, wpResult = "True"))
    /\ WaitForget
    /\ UNCHANGED <<harnessVars, ctrlVars, resVars, ldrVars,
                   fileVars, exportResult, execResult, closeResult>>
    /\ UNCHANGED handlerVars

\* _safe_fill: True when locator(selector).fill(value) returned, False when it raised
safe_fill(filled) == IF filled THEN "True" ELSE "False"

\* the loop without its early return
after_fill_no_abort(sucess, idx) ==
    IF idx < Len(Credentials) THEN "next_field" ELSE "submit"

\* for key, val in credentials.items():
\*     sucess = await self._safe_fill(key, val)
\*     if not sucess: return False
\* where the loop goes after one _safe_fill
after_fill(sucess, idx) ==
    IF sucess # "True" THEN "return_false"
    ELSE IF idx < Len(Credentials) THEN "next_field"
    ELSE "submit"

login_fill ==
    /\ pc = "login_fill"
    /\ \E filled \in BOOLEAN :
          /\ events' = Append(events, Ev("fill", Credentials[credIdx], filled))
          /\ LET to == after_fill(safe_fill(filled), credIdx) IN
                CASE to = "return_false" -> LoginReturn("False") /\ UNCHANGED credIdx
                  [] to = "next_field"   -> /\ credIdx' = credIdx + 1
                                            /\ UNCHANGED <<pc, loginResult>>
                  [] to = "submit"       -> /\ pc' = "login_submit"
                                            /\ UNCHANGED <<credIdx, loginResult>>
    /\ UNCHANGED <<harnessVars, ctrlVars, resVars, waitVars, ldrVars, fileVars,
                   exportResult, execResult, closeResult>>
    /\ UNCHANGED handlerVars

\* await self.page.locator(self.selectors["submit_button"]).click()
login_submit ==
    /\ pc = "login_submit"
    /\ \/ /\ events' = Append(events, Ev("click", "submit_button", TRUE))
          /\ WaitCall("home")
          /\ UNCHANGED loginResult
       \/ /\ events' = Append(events, Ev("click", "submit_button", FALSE))
          /\ LoginRaise
          /\ UNCHANGED waitVars
    /\ UNCHANGED <<harnessVars, ctrlVars, resVars, ldrVars, credIdx, fileVars,
                   exportResult, execResult, closeResult>>
    /\ UNCHANGED handlerVars

\* is_logged = await self._wait_for_page('Pagina de Boas Vindas', [home_check])
login_after_wait_home ==
    /\ pc = "wait_returned"
    /\ wpSite = "home"
    /\ LoginReturn(IF wpResult = "True" THEN "True" ELSE "False")
    /\ events' = Append(events, Ev("wait_for_page", wpSite, wpResult = "True"))
    /\ WaitForget
    /\ UNCHANGED <<harnessVars, ctrlVars, resVars, ldrVars, credIdx,
                   fileVars, exportResult, execResult, closeResult>>
    /\ UNCHANGED handlerVars

----------------------------------------------------------------------------
(* execute_process_4field and _export_data *)

\* if await self._login(): await self._export_data(); return True
\* (falling off the end returns None)
execute_if_login ==
    /\ pc = "exec_if_login"
    /\ IF loginResult = "True"
       THEN pc' = "export_nav_click" /\ UNCHANGED execResult
       ELSE execResult' = "None" /\ pc' = "exec_returned"
    /\ UNCHANGED <<harnessVars, ctrlVars, resVars, waitVars, ldrVars, credIdx,
                   events, fileVars, loginResult, exportResult, closeResult>>
    /\ UNCHANGED handlerVars

ExportReturn(value) ==
    /\ exportResult' = value
    /\ pc' = "exec_return_true"

\* except Exception as e: ... return None
ExportRaise == ExportReturn("None")

\* await self.page.locator(self.selectors["fn_backlog"]).click()
\* This statement stands before the try: what it raises leaves _export_data
\* and, execute_process_4field having no handler, leaves that as well.
export_nav_click ==
    /\ pc = "export_nav_click"
    /\ \/ /\ events' = Append(events, Ev("click", "fn_backlog", TRUE))
          /\ pc' = "loader_visible"
          /\ UNCHANGED <<exportResult, execResult>>
       \/ /\ events' = Append(events, Ev("click", "fn_backlog", FALSE))
          /\ exportResult' = "raised"
          /\ execResult' = "raised"
          /\ pc' = "exec_returned"
    /\ UNCHANGED <<harnessVars, ctrlVars, resVars, waitVars, ldrVars, credIdx,
                   fileVars, loginResult, closeResult>>
    /\ UNCHANGED handlerVars

\* the inner except returning False
loader_result_not_visible_false == "False"

\* _wait_for_loader, first wait: wait_for_selector(main_loader, "visible", 5000).
\* It returns when the indicator appeared in time and raises otherwise; the
\* inner except returns True.  loader records what the indicator did:
\* appeared within the 5000 ms, gone within the timeout ("yes" / "no").
loader_result_not_visible == "True"

loader_wait_visible ==
    /\ pc = "loader_visible"
    /\ \E appeared \in BOOLEAN :
          /\ loader' = [loader EXCEPT !.appeared = IF appeared THEN "yes" ELSE "no"]
          /\ events' = Append(events, Ev("wait_visible", "main_loader", appeared))
          /\ IF appeared
             THEN pc' = "loader_hidden" /\ UNCHANGED loaderResult
             ELSE loaderResult' = loader_result_not_visible /\ pc' = "loader_returned"
    /\ UNCHANGED <<harnessVars, ctrlVars, resVars, waitVars, credIdx, fileVars,
                   loginResult, exportResult, execResult, closeResult>>
    /\ UNCHANGED handlerVars

\* second wait: wait_for_selector(main_loader, "hidden", timeout): return True
\* when it returns, the outer except returns False when it raises
loader_result_hidden(gone) == IF gone THEN "True" ELSE "False"

loader_wait_hidden ==
    /\ pc = "loader_hidden"
    /\ \E gone \in BOOLEAN :
          /\ loader' = [loader EXCEPT !.gone = IF gone THEN "yes" ELSE "no"]
          /\ events' = Append(events, Ev("wait_hidden", "main_loader", gone))
          /\ loaderResult' = loader_result_hidden(gone)
    /\ pc' = "loader_returned"
    /\ UNCHANGED <<harnessVars, ctrlVars, resVars, waitVars, credIdx, fileVars,
                   loginResult, exportResult, execResult, closeResult>>
    /\ UNCHANGED handlerVars

\* if await self._wait_for_loader(): sucess = await self._wait_for_page("Visao Backlog", ...)
\* (a false result falls off the end of _export_data: None)
export_after_loader ==
    /\ pc = "loader_returned"
    /\ IF loaderResult = "True"
       THEN WaitCall("view") /\ UNCHANGED exportResult
       ELSE ExportReturn("None") /\ UNCHANGED waitVars
    /\ loader' = NoLoader /\ loaderResult' = "pending"
    /\ UNCHANGED <<harnessVars, ctrlVars, resVars, credIdx, events,
                   fileVars, loginResult, execResult, closeResult>>
    /\ UNCHANGED handlerVars

\* the export going on whatever the wait returned
after_wait_view_always(sucess) == "export_expect_download"

\* if sucess: async with self.page.expect_download(timeout=120000) ...
\* (a false result falls off the end of _export_data: None)
after_wait_view(sucess) ==
    IF sucess = "True" THEN "export_expect_download" ELSE "return_none"

export_after_wait_view ==
    /\ pc = "wait_returned"
    /\ wpSite = "view"
    /\ IF after_wait_view(wpResult) = "return_none"
       THEN ExportReturn("None")
       ELSE pc' = after_wait_view(wpResult) /\ UNCHANGED exportResult
    /\ events' = Append(events, Ev("wait_for_page", wpSite, wpResult = "True"))
    /\ WaitForget
    /\ UNCHANGED <<harnessVars, ctrlVars, resVars, ldrVars, credIdx,
                   fileVars, loginResult, execResult, closeResult>>
    /\ UNCHANGED handlerVars

\* entering the async with registers the download listener
export_expect_download ==
    /\ pc = "export_expect_download"
    /\ \/ /\ events' = Append(events, Ev("listen", "download", TRUE))
          /\ pc' = "export_click_icon"
          /\ UNCHANGED exportResult
       \/ /\ events' = Append(events, Ev("listen", "download", FALSE))
          /\ ExportRaise
    /\ UNCHANGED <<harnessVars, ctrlVars, resVars, waitVars, ldrVars, credIdx,
                   fileVars, loginResult, execResult, closeResult>>
    /\ UNCHANGED handlerVars

\* await self.page.locator(self.selectors["export_icon"]).click()
export_click_icon ==
    /\ pc = "export_click_icon"
    /\ \/ /\ events' = Append(events, Ev("click", "export_icon", TRUE))
          /\ pc' = "export_await_download"
          /\ UNCHANGED exportResult
       \/ /\ events' = Append(events, Ev("click", "export_icon", FALSE))
          /\ ExportRaise
    /\ UNCHANGED <<harnessVars, ctrlVars, resVars, waitVars, ldrVars, credIdx,
                   fileVars, loginResult, execResult, closeResult>>
    /\ UNCHANGED handlerVars

\* leaving the async with and download = await download_info.value: the download
\* arrives within 120000 ms, with whatever content the server sent, or the wait raises
DownloadContents == {"empty", "oneline", "twolines"}

export_await_download ==
    /\ pc = "export_await_download"
    /\ \/ /\ \E sent \in DownloadContents : artifact' = sent
          /\ events' = Append(events, Ev("download", "download", TRUE))
          /\ pc' = "export_save"
          /\ UNCHANGED exportResult
       \/ /\ events' = Append(events, Ev("download", "download", FALSE))
          /\ ExportRaise
          /\ UNCHANGED artifact
    /\ UNCHANGED <<harnessVars, ctrlVars, resVars, waitVars, ldrVars, credIdx,
                   savedFile, validResult, loginResult, execResult, closeResult>>
    /\ UNCHANGED handlerVars

\* await download.save_as(str(final_path)): copies the download to final_path
export_save ==
    /\ pc = "export_save"
    /\ \/ /\ savedFile' = artifact
          /\ events' = Append(events, Ev("save", "final_path", TRUE))
          /\ pc' = "export_validate"
          /\ UNCHANGED exportResult
       \/ /\ events' = Append(events, Ev("save", "final_path", FALSE))
          /\ ExportRaise
          /\ UNCHANGED savedFile
    /\ UNCHANGED <<harnessVars, ctrlVars, resVars, waitVars, ldrVars, credIdx,
                   artifact, validResult, loginResult, execResult, closeResult>>
    /\ UNCHANGED handlerVars

\* _validate_download_file(file_path): False when the file is missing, when its
\* size is 0 and when stat/open/readline raises; True when two lines are read;
\* with one line only the function falls off its end (None)
validate_download_file(file, ioerror) ==
    IF file = "absent" THEN "False"
    ELSE IF ioerror THEN "False"
    ELSE IF file = "empty" THEN "False"
    ELSE IF file = "twolines" THEN "True"
    ELSE "None"

\* if await self._validate_download_file(final_path): return final_path
\* The downloads directory is shared: the file can be gone again before it is
\* looked at (ExcelFileHendler.delete_most_recent_file unlinks files there).
export_validate ==
    /\ pc = "export_validate"
    /\ \E io \in {"ok", "vanished", "ioerror"} :
          /\ savedFile' = IF io = "vanished" THEN "absent" ELSE savedFile
          /\ validResult' = validate_download_file(savedFile', io = "ioerror")
    /\ events' = Append(events, Ev("validate", "final_path", validResult' = "True"))
    /\ IF validResult' = "True"
       THEN ExportReturn("path")
       ELSE pc' = "export_delete" /\ UNCHANGED exportResult
    /\ UNCHANGED <<harnessVars, ctrlVars, resVars, waitVars, ldrVars, credIdx,
                   artifact, loginResult, execResult, closeResult>>
    /\ UNCHANGED handlerVars

\* await download.delete(): removes the browser's own copy of the download;
\* return None (also when delete raises)
download_delete(art, deleted) == IF deleted THEN "absent" ELSE art

export_delete ==
    /\ pc = "export_delete"
    /\ \E deleted \in BOOLEAN :
          /\ artifact' = download_delete(artifact, deleted)
          /\ events' = Append(events, Ev("delete", "download", deleted))
    /\ ExportReturn("None")
    /\ UNCHANGED <<harnessVars, ctrlVars, resVars, waitVars, ldrVars, credIdx,
                   savedFile, validResult, loginResult, execResult, closeResult>>
    /\ UNCHANGED handlerVars

\* the value execute_process_4field returns after _export_data returned `exported`
execute_result(exported) == "True"

execute_return ==
    /\ pc = "exec_return_true"
    /\ execResult' = execute_result(exportResult)
    /\ pc' = "exec_returned"
    /\ UNCHANGED <<harnessVars, ctrlVars, resVars, waitVars, ldrVars, credIdx,
                   events, fileVars, loginResult, exportResult, closeResult>>
    /\ UNCHANGED handlerVars

----------------------------------------------------------------------------
(* close *)

\* try: if self.context: await self.context.close()
\* except Exception: logged, and close() returns
close_context ==
    /\ pc = "close_context"
    /\ IF context # 0
       THEN \/ /\ contextsLive' = contextsLive \ {context}
               /\ pc' = "close_engine"
               /\ UNCHANGED closeResult
            \/ /\ closeResult' = "error_logged"
               /\ pc' = "close_returned"
               /\ UNCHANGED contextsLive
       ELSE /\ pc' = "close_engine"
            /\ UNCHANGED <<contextsLive, closeResult>>
    /\ UNCHANGED <<harnessVars, ctrlVars, enginesLive, waitVars, ldrVars, credIdx,
                   events, fileVars, loginResult, exportResult, execResult>>
    /\ UNCHANGED handlerVars

\* if hasattr(self, 'playwright_engine'): await self.playwright_engine.stop()
\* __init__ sets the attribute (to None), so hasattr is always true; stop() on
\* None is an AttributeError, which the except Exception of close() logs
close_engine ==
    /\ pc = "close_engine"
    /\ IF playwright_engine = 0
       THEN /\ closeResult' = "error_logged"
            /\ UNCHANGED enginesLive
       ELSE \/ /\ enginesLive' = enginesLive \ {playwright_engine}
               /\ closeResult' = "clean"
            \/ /\ closeResult' = "error_logged"
               /\ UNCHANGED enginesLive
    /\ pc' = "close_returned"
    /\ UNCHANGED <<harnessVars, ctrlVars, contextsLive, waitVars, ldrVars, credIdx,
                   events, fileVars, loginResult, exportResult, execResult>>
    /\ UNCHANGED handlerVars

\* close() returns to its caller; in main the finally clause then lets a pending
\* exception of execute_process_4field continue
close_return ==
    /\ pc = "close_returned"
    /\ lastOp' = "close"
    /\ pc' = IF caller = "free" THEN "idle"
             ELSE IF execResult = "raised" THEN "crashed" ELSE "done"
    /\ UNCHANGED <<caller, runs, closes, ctrlVars, resVars, waitVars, ldrVars,
                   credIdx, events, fileVars, loginResult, exportResult, execResult,
                   closeResult>>
    /\ UNCHANGED handlerVars

----------------------------------------------------------------------------
(* main *)

\* main without the finally clause: an exception skips close()
main_after_no_finally(outcome) ==
    CASE outcome = "raised" -> "crashed"
      [] outcome = "True"   -> "main_sleep"
      [] OTHER              -> "main_finally"

\* try: sucess = await scraper.execute_process_4field()
\*      if sucess: print(...); await asyncio.sleep(3)  else: print(...)
\* finally: await scraper.close()
\* where main goes when execute_process_4field ended with `outcome`
main_after(outcome) ==
    CASE outcome = "raised" -> "main_finally"
      [] outcome = "True"   -> "main_sleep"
      [] OTHER              -> "main_finally"

main_after_execute ==
    /\ pc = "exec_returned"
    /\ caller = "main"
    /\ pc' = main_after(execResult)
    /\ lastOp' = "execute"
    /\ RunForget
    /\ UNCHANGED <<caller, runs, closes, ctrlVars, resVars, waitVars, ldrVars,
                   artifact, savedFile, loginResult, exportResult, execResult,
                   closeResult>>
    /\ UNCHANGED handlerVars

main_sleep ==
    /\ pc = "main_sleep"
    /\ pc' = "main_finally"
    /\ UNCHANGED <<harnessVars, ctrlVars, resVars, waitVars, ldrVars, credIdx,
                   events, fileVars, loginResult, exportResult, execResult,
                   closeResult>>
    /\ UNCHANGED handlerVars

main_finally ==
    /\ pc = "main_finally"
    /\ closes' = closes + 1
    /\ closeResult' = "pending"
    /\ pc' = "close_context"
    /\ UNCHANGED <<caller, runs, lastOp, ctrlVars, resVars, waitVars, ldrVars,
                   credIdx, events, fileVars, loginResult, exportResult, execResult>>
    /\ UNCHANGED handlerVars

----------------------------------------------------------------------------
(* any other caller of the controller: it invokes execute_process_4field and *)
(* close in any order, one call at a time                                     *)

caller_after_execute ==
    /\ pc = "exec_returned"
    /\ caller = "free"
    /\ pc' = "idle"
    /\ lastOp' = "execute"
    /\ RunForget
    /\ UNCHANGED <<caller, runs, closes, ctrlVars, resVars, waitVars, ldrVars,
                   artifact, savedFile, loginResult, exportResult, execResult,
                   closeResult>>
    /\ UNCHANGED handlerVars

close_call ==
    /\ pc = "idle"
    /\ caller = "free"
    /\ closes < MaxCloses
    /\ closes' = closes + 1
    /\ closeResult' = "pending"
    /\ pc' = "close_context"
    /\ UNCHANGED <<caller, runs, lastOp, ctrlVars, resVars, waitVars, ldrVars,
                   credIdx, events, fileVars, loginResult, exportResult, execResult>>
    /\ UNCHANGED handlerVars

----------------------------------------------------------------------------
(* ExcelFileHendler: the files it reads *)

\* the files of the downloads directory whose name starts with the prefix
Names == {"backlog_a.csv", "backlog_b.csv"}

\* encodings = ['latin-1', 'utf-8']  (both loaders)
Encodings == <<"latin-1", "utf-8">>

\* raw headers that decide whether normalization raises, and their entries in
\* COLUMN_MAPPING ('Priorização Dispatching' is written without its accents)
RawColumns == {"Id 4Field", "Priorizacao Dispatching", "update_time"}

Rename(col) ==
    CASE col = "Id 4Field"               -> "id_4field"
      [] col = "Criacao do NTT"          -> "criacao_do_ntt"
      [] col = "Priorizacao Dispatching" -> "priorizacao_dispatching"
      [] OTHER                           -> col

\* what the second pass yields for one chunk: rows that normalize ("ok"), an
\* identifier cell that cannot be cast to Int64 ("bad_id"), or rows that do
\* not fit the cached column types, so that reading the chunk raises ("bad_dtype")
ChunkKinds == {"ok", "bad_id", "bad_dtype"}

ChunkSeqs == UNION {[1..n -> ChunkKinds] : n \in 1..MaxChunks}

\* A file: its size in bytes, whether its bytes decode as utf-8 (every byte
\* sequence decodes as latin-1), its shape, its header, its rows in chunks of
\* CHUNK_SIZE rows (the last chunk holding lastRows rows).
Contents ==
    {c \in [size : {0, 2048, 10240000, 10240001, 10485761}, utf8 : BOOLEAN,
            shape : {"empty", "header_only", "malformed", "rows"},
            header : SUBSET RawColumns, chunks : ChunkSeqs \cup {<<>>},
            lastRows : {1, CHUNK_SIZE}] :
        /\ c.shape = "empty" <=> c.size = 0
        /\ c.shape = "empty" => c.header = {}
        /\ c.shape = "rows" <=> c.chunks # <<>>
        /\ c.shape # "rows" => c.lastRows = 1}

\* pd.read_csv(file_path, encoding=encoding, sep=';', ...): what reading the
\* file (chunked: its first chunk) with one encoding ends with
read_csv(c, encoding, chunked) ==
    IF encoding = "utf-8" /\ ~c.utf8 THEN "UnicodeDecodeError"
    ELSE IF c.shape = "empty" THEN "EmptyDataError"
    ELSE IF c.shape = "malformed" THEN "ParserError"
    ELSE IF c.shape = "header_only" /\ chunked THEN "StopIteration"
    ELSE "ok"

\* sample.dtypes.to_dict(): the column types of the sample that one load read
\* with one encoding
Schema(load, encoding) == [load |-> load, encoding |-> encoding]

\* self._column_types_cache = {}
EmptyCache == Schema(0, "None")

\* no second pass was opened
NoReader == [encoding |-> "None", dtype |-> EmptyCache]

\* a cache that is filled only while it is empty
sample_dtypes_if_empty(cache, load, encoding) ==
    IF cache = EmptyCache THEN Schema(load, encoding) ELSE cache

\* self._column_types_cache = sample.dtypes.to_dict(): the value assigned
sample_dtypes(cache, load, encoding) == Schema(load, encoding)

\* the size test alone
should_use_chunks_size_only(file_size) ==
    file_size > CSV_SIZE_TRESHOLD * 1024 * 1024

\* _should_use_chunks: file_size > CSV_SIZE_TRESHOLD * 1024 * 1024, or
\* file_size / (AVG_LINE_SIZE_KB * 1024) > CHUNK_SIZE (a true division)
should_use_chunks(file_size) ==
    \/ file_size > CSV_SIZE_TRESHOLD * 1024 * 1024
    \/ file_size > CHUNK_SIZE * (AVG_LINE_SIZE_KB * 1024)

\* Whether _process_dataframe raises on a table with this header: df.insert of
\* a column that exists already, astype('Int64') of an identifier that is no
\* integer, df["priorizacao_dispatching"] of a table without that column.
\* (What the date columns raise is caught inside the function.)
process_dataframe_raises(header, kinds, ut) ==
    LET cols == {Rename(h) : h \in header} IN
    \/ ut # "None" /\ "update_time" \in cols
    \/ "id_4field" \in cols /\ "bad_id" \in kinds
    \/ "priorizacao_dispatching" \notin cols

\* A table is written by its rows, in order.  The rows of a file are named by
\* the chunk of CHUNK_SIZE rows they lie in: <<1, 2>> is the table holding the
\* rows of chunk 1 followed by the rows of chunk 2.
DataFrame(rows) == [is |-> "DataFrame", rows |-> rows]

\* dataframe: Optional[pd.DataFrame] = None
NoDataFrame == [is |-> "None", rows |-> <<>>]

\* how many rows the reader yields for chunk i of the file when it reads with
\* chunksize=CHUNK_SIZE: every chunk is full but the last
chunk_rows(c, i) == IF i = Len(c.chunks) THEN c.lastRows ELSE CHUNK_SIZE

\* len(df)
RECURSIVE len(_, _)
len(c, rows) ==
    IF rows = <<>> THEN 0 ELSE chunk_rows(c, Head(rows)) + len(c, Tail(rows))

\* pd.read_csv(file_path, ...) without chunksize: the whole file as one table
read_whole(c) == [i \in 1..Len(c.chunks) |-> i]

\* concat that keeps the first table only
concat_first(frames) == IF frames = <<>> THEN <<>> ELSE Head(frames)

\* pd.concat(chunks, ignore_index=True): the rows of the tables, in list order
RECURSIVE concat(_)
concat(frames) ==
    IF frames = <<>> THEN <<>> ELSE Head(frames) \o concat(Tail(frames))

\* FileProcessingResult (the message is left out)
FileProcessingResult(sucess, dataframe, chunks_processed) ==
    [sucess |-> sucess, dataframe |-> dataframe, chunks_processed |-> chunks_processed]

NoResult == FileProcessingResult("pending", NoDataFrame, 0)
Failed == FileProcessingResult("False", NoDataFrame, 0)

\* where an exception lands: each handler returns a failed result

\* process_most_recent_file without its handler: the exception leaves it
process_most_recent_file_reraise(exc) == [lpc |-> "raised", result |-> NoResult]

\* process_most_recent_file: except Exception as e: return FileProcessingResult(sucess=False, ...)
process_most_recent_file_except(exc) == [lpc |-> "returned", result |-> Failed]

\* _load_to_dataframe: except Exception as e: return FileProcessingResult(sucess=False, ...)
load_to_dataframe_except(exc) == [lpc |-> "returned", result |-> Failed]

\* _load_small_csv: except Exception as e: return FileProcessingResult(sucess=False, ...)
load_small_csv_except(exc) == [lpc |-> "returned", result |-> Failed]

\* the handler of the second pass reporting the chunks normalized so far
load_large_csv_except_partial(exc) ==
    [lpc |-> "returned", result |-> FileProcessingResult("False", NoDataFrame, Len(chunks))]

\* _load_large_csv, second pass: except Exception as e: return FileProcessingResult(sucess=False, ...)
load_large_csv_except(exc) == [lpc |-> "returned", result |-> Failed]

Land(to) ==
    /\ lpc' = to.lpc
    /\ result' = to.result

loopVars == <<encIdx, successful_encoding, chunkIdx, total_rows, processed, chunks,
              reader>>
fileSysVars == <<directory, content>>

InitHandler ==
    /\ directory \in [Names -> 0..MaxMtime]
    /\ content \in Contents
    /\ update_time \in {"None", "2024-02-01 10:00:00"}
    /\ column_types_cache = EmptyCache
    /\ calls = 0
    /\ lpc = "idle"
    /\ file_path = "None"
    /\ target = "None"
    /\ encIdx = 1
    /\ successful_encoding = "None"
    /\ chunkIdx = 1
    /\ total_rows = 0
    /\ processed = 0
    /\ chunks = <<>>
    /\ reader = NoReader
    /\ consumed = {}
    /\ delResult = "pending"
    /\ failure = "none"
    /\ result = NoResult

\* a handler nobody uses
InitHandlerUnused ==
    /\ directory = [n \in Names |-> 0]
    /\ content = CHOOSE c \in Contents : c.shape = "empty" /\ ~c.utf8 /\ c.chunks = <<>>
    /\ update_time = "None"
    /\ column_types_cache = EmptyCache
    /\ calls = 0
    /\ lpc = "idle"
    /\ file_path = "None"
    /\ target = "None"
    /\ encIdx = 1
    /\ successful_encoding = "None"
    /\ chunkIdx = 1
    /\ total_rows = 0
    /\ processed = 0
    /\ chunks = <<>>
    /\ reader = NoReader
    /\ consumed = {}
    /\ delResult = "pending"
    /\ failure = "none"
    /\ result = NoResult

----------------------------------------------------------------------------
(* ExcelFileHendler: process_most_recent_file *)

\* target_path = file_path if file_path else self._find_most_recent_file()
process_most_recent_file_call ==
    /\ lpc = "idle"
    /\ calls < MaxCalls
    /\ calls' = calls + 1
    /\ \E given \in {"None"} \cup Names :
          /\ file_path' = given
          /\ target' = given
          /\ lpc' = IF given = "None" THEN "find" ELSE "load_stat"
    /\ failure' = "none"
    /\ result' = NoResult
    /\ encIdx' = 1 /\ successful_encoding' = "None"
    /\ chunkIdx' = 1 /\ total_rows' = 0 /\ processed' = 0 /\ chunks' = <<>>
    /\ reader' = NoReader
    /\ UNCHANGED <<fileSysVars, update_time, column_types_cache, scraperVars, normVars, delVars>>

\* any of the files, whatever its modification time
any_file(files) == files

\* max(files, key=lambda f: f.stat().st_mtime): the files max can return
most_recent(files) ==
    {f \in files : \A g \in files : directory[g] <= directory[f]}

\* _find_most_recent_file: files = list(self.directory.glob(prefix + "*"));
\* raise FileNotFoundError when empty, else max(files, key = st_mtime)
find_most_recent_file ==
    /\ lpc = "find"
    /\ LET files == {n \in Names : directory[n] > 0} IN
       IF files = {}
       THEN /\ failure' = "NotFound"
            /\ Land(process_most_recent_file_except("FileNotFoundError"))
            /\ UNCHANGED target
       ELSE /\ \E f \in most_recent(files) : target' = f
            /\ lpc' = "load_stat"
            /\ UNCHANGED <<failure, result>>
    /\ UNCHANGED <<fileSysVars, update_time, column_types_cache, calls, loopVars,
                   scraperVars, normVars, delVars, file_path>>

\* _load_to_dataframe: file_path.stat(), then the strategy
load_to_dataframe ==
    /\ lpc = "load_stat"
    /\ IF directory[target] = 0
       THEN /\ failure' = "NotFound"
            /\ Land(load_to_dataframe_except("FileNotFoundError"))
       ELSE /\ lpc' = IF should_use_chunks(content.size)
                      THEN "large_sample" ELSE "small_read"
            /\ UNCHANGED <<failure, result>>
    /\ UNCHANGED <<fileSysVars, update_time, column_types_cache, calls, target,
                   loopVars, scraperVars, normVars, delVars, file_path>>

\* _load_small_csv: the loop over the encodings
load_small_csv_read ==
    /\ lpc = "small_read"
    /\ LET out == read_csv(content, Encodings[encIdx], FALSE) IN
       CASE out = "ok" ->
               /\ lpc' = "small_process"
               /\ UNCHANGED <<encIdx, failure, result>>
         [] out \in {"UnicodeDecodeError", "ParserError"} ->
               \* continue; after the last candidate df is None: ValueError
               IF encIdx < Len(Encodings)
               THEN /\ encIdx' = encIdx + 1
                    /\ UNCHANGED <<lpc, failure, result>>
               ELSE /\ failure' = IF out = "ParserError" THEN "Parse" ELSE "Encoding"
                    /\ Land(load_small_csv_except("ValueError"))
                    /\ UNCHANGED encIdx
         [] OTHER ->
               /\ failure' = "Parse"
               /\ Land(load_small_csv_except(out))
               /\ UNCHANGED encIdx
    /\ UNCHANGED <<fileSysVars, update_time, column_types_cache, calls, target,
                   successful_encoding, chunkIdx, total_rows, processed, chunks,
                   reader, scraperVars, normVars, delVars, file_path>>

\* process_df = self._process_dataframe(df); return FileProcessingResult(sucess=True, ...)
load_small_csv_process ==
    /\ lpc = "small_process"
    /\ IF process_dataframe_raises(content.header, Range(content.chunks), update_time)
       THEN /\ failure' = "Normalization"
            /\ Land(load_small_csv_except("Exception"))
       ELSE /\ result' = FileProcessingResult("True", DataFrame(read_whole(content)), 0)
            /\ lpc' = "returned"
            /\ UNCHANGED failure
    /\ UNCHANGED <<fileSysVars, update_time, column_types_cache, calls, target,
                   loopVars, scraperVars, normVars, delVars, file_path>>

\* _load_large_csv, first pass: sample = next(reader) with each encoding;
\* except (UnicodeDecodeError, StopIteration): continue; anything else leaves
\* _load_large_csv and is caught by _load_to_dataframe. After the break the
\* second pass opens its reader with encoding=successful_encoding and
\* dtype=self._column_types_cache.
load_large_csv_sample ==
    /\ lpc = "large_sample"
    /\ LET out == read_csv(content, Encodings[encIdx], TRUE) IN
       CASE out = "ok" ->
               /\ column_types_cache' =
                      sample_dtypes(column_types_cache, calls, Encodings[encIdx])
               /\ successful_encoding' = Encodings[encIdx]
               /\ reader' = [encoding |-> successful_encoding',
                             dtype |-> column_types_cache']
               /\ chunkIdx' = 1 /\ total_rows' = 0 /\ processed' = 0
               /\ chunks' = <<>>
               /\ lpc' = "large_chunk"
               /\ UNCHANGED <<encIdx, failure, result>>
         [] out \in {"UnicodeDecodeError", "StopIteration"} ->
               \* if not successful_encoding: return FileProcessingResult(sucess=False, ...)
               IF encIdx < Len(Encodings)
               THEN /\ encIdx' = encIdx + 1
                    /\ UNCHANGED <<lpc, failure, result, column_types_cache,
                                   successful_encoding, chunkIdx, total_rows, processed,
                                   chunks, reader>>
               ELSE /\ failure' = "Encoding"
                    /\ result' = Failed
                    /\ lpc' = "returned"
                    /\ UNCHANGED <<encIdx, column_types_cache, successful_encoding,
                                   chunkIdx, total_rows, processed, chunks, reader>>
         [] OTHER ->
               /\ failure' = "Parse"
               /\ Land(load_to_dataframe_except(out))
               /\ UNCHANGED <<encIdx, column_types_cache, successful_encoding,
                              chunkIdx, total_rows, processed, chunks, reader>>
    /\ UNCHANGED <<fileSysVars, update_time, calls, target, scraperVars, normVars, delVars, file_path>>

\* _load_large_csv, second pass: for chunk in reader: processed_chunk =
\* self._process_dataframe(chunk); chunks.append(...); total_rows += len(chunk);
\* then df = pd.concat(chunks, ignore_index=True) (a ValueError on an empty
\* list) and the successful result with chunks_processed=len(chunks)
load_large_csv_chunk ==
    /\ lpc = "large_chunk"
    /\ IF chunkIdx > Len(content.chunks)
       THEN /\ IF chunks = <<>>
               THEN /\ failure' = "Parse"
                    /\ Land(load_large_csv_except("ValueError"))
               ELSE /\ result' = FileProcessingResult("True", DataFrame(concat(chunks)),
                                                      Len(chunks))
                    /\ lpc' = "returned"
                    /\ UNCHANGED failure
            /\ UNCHANGED <<chunkIdx, total_rows, processed, chunks>>
       ELSE IF content.chunks[chunkIdx] = "bad_dtype"
       THEN /\ failure' = "Parse"
            /\ Land(load_large_csv_except("ValueError"))
            /\ UNCHANGED <<chunkIdx, total_rows, processed, chunks>>
       ELSE IF process_dataframe_raises(content.header, {content.chunks[chunkIdx]},
                                        update_time)
       THEN /\ failure' = "Normalization"
            /\ Land(load_large_csv_except("Exception"))
            /\ UNCHANGED <<chunkIdx, total_rows, processed, chunks>>
       ELSE /\ chunks' = Append(chunks, <<chunkIdx>>)
            /\ processed' = processed + 1
            /\ total_rows' = total_rows + chunk_rows(content, chunkIdx)
            /\ chunkIdx' = chunkIdx + 1
            /\ UNCHANGED <<lpc, failure, result>>
    /\ UNCHANGED <<fileSysVars, update_time, column_types_cache, calls, target,
                   encIdx, successful_encoding, reader, scraperVars, normVars, delVars,
                   file_path>>

\* the caller has the FileProcessingResult
process_most_recent_file_return ==
    /\ lpc = "returned"
    /\ lpc' = "idle"
    /\ consumed' = IF result.sucess = "True" THEN consumed \cup {target} ELSE consumed
    /\ UNCHANGED <<fileSysVars, update_time, column_types_cache, calls, target,
                   loopVars, failure, result, scraperVars, normVars, file_path,
                   delResult>>

----------------------------------------------------------------------------
(* ExcelFileHendler: delete_most_recent_file *)

\* delete_most_recent_file: file_path = self._find_most_recent_file();
\* file_path.unlink(); return True. except Exception: the error is logged and
\* the function ends without a return statement, so the caller gets None.
delete_most_recent_file ==
    /\ lpc = "idle"
    /\ LET files == {n \in Names : directory[n] > 0} IN
       IF files = {}
       THEN /\ delResult' = "None"
            /\ UNCHANGED directory
       ELSE \E f \in most_recent(files) :
               \/ /\ directory' = [directory EXCEPT ![f] = 0]
                  /\ delResult' = "True"
               \/ /\ delResult' = "None"
                  /\ UNCHANGED directory
    /\ UNCHANGED <<content, update_time, column_types_cache, calls, lpc, file_path,
                   target, loopVars, failure, result, scraperVars, normVars, consumed>>

\* the browser (or anyone) saves a new prefix-matching file into the downloads
\* directory
file_arrives ==
    /\ \E n \in Names, mtime \in 1..MaxMtime :
          /\ directory[n] = 0
          /\ directory' = [directory EXCEPT ![n] = mtime]
    /\ UNCHANGED <<content, update_time, column_types_cache, calls, lpc, file_path,
                   target, loopVars, failure, result, scraperVars, normVars, delVars>>

----------------------------------------------------------------------------
(* ExcelFileHendler._process_dataframe on tables of cells *)

\* A cell is a text, a number, a timestamp or a null; a null is written with
\* the text astype(str) gives it.
Str(x) == [kind |-> "str", text |-> x]
Num(x) == [kind |-> "number", text |-> x]
Timestamp(x) == [kind |-> "datetime", text |-> x]
NaN == [kind |-> "null", text |-> "nan"]
NaT == [kind |-> "null", text |-> "NaT"]
None == [kind |-> "null", text |-> "None"]

isna(c) == c.kind = "null"

\* the columns a table read from a file can have: an identifier column, a date
\* column, the column of line 184, a column COLUMN_MAPPING does not know and a
\* column that is already named update_time (accents are left out)
NormColumns ==
    {"Id 4Field", "Criacao do NTT", "Priorizacao Dispatching", "Obs", "update_time"}

\* DATE_COLUMNS, id_cols: the ones among the modelled columns
DATE_COLUMNS == {"criacao_do_ntt"}
id_cols == {"id_4field"}

\* the cells read_csv (or a caller) can put into each column
IdCells == {Num("123"), NaN, Str("abc")}
DateCells == {Str("01/02/2024 10:00:00"), Str("sem data"), NaN}
PrioCells == {Str("P1"), NaN}
ObsCells == {Str("x"), Str("nan"), Str("None"), Str(""), Str("NaT"), NaN}
StampCells == {Str("2024-01-31 09:00:00")}

Column(cells) == [1..NRows -> cells] \cup {<<>>}

BuildTable(id, date, prio, obs, stamp) ==
    LET full == [n \in NormColumns |->
                    CASE n = "Id 4Field"               -> id
                      [] n = "Criacao do NTT"          -> date
                      [] n = "Priorizacao Dispatching" -> prio
                      [] n = "Obs"                     -> obs
                      [] n = "update_time"             -> stamp]
    IN  [n \in {m \in NormColumns : full[m] # <<>>} |-> full[n]]

\* the tables: each column is absent or holds NRows cells; the columns are
\* normalized one by one, so the unknown column is not combined with the
\* identifier and date columns
Tables ==
    {BuildTable(id, date, prio, <<>>, stamp) :
        id \in Column(IdCells), date \in Column(DateCells),
        prio \in Column(PrioCells), stamp \in Column(StampCells)}
    \cup
    {BuildTable(<<>>, <<>>, prio, obs, stamp) :
        prio \in Column(PrioCells), obs \in Column(ObsCells),
        stamp \in Column(StampCells)}

\* df.rename(columns=self.COLUMN_MAPPING)
rename_columns(t) ==
    [n \in {Rename(c) : c \in DOMAIN t} |-> t[CHOOSE c \in DOMAIN t : Rename(c) = n]]

\* df.insert(0, "update_time", self.update_time): a ValueError when the table
\* has a column of that name already
insert_raises(t, ut) == ut # "None" /\ "update_time" \in DOMAIN t

insert_update_time(t, ut) ==
    IF ut = "None" THEN t
    ELSE [n \in DOMAIN t \cup {"update_time"} |->
             IF n = "update_time" THEN [i \in 1..NRows |-> Str(ut)] ELSE t[n]]

\* pd.to_datetime(df[col], errors='coerce'), called without a format and
\* without dayfirst: a text d1/d2/yyyy with d1 <= 12 is read month first, a
\* text in ISO form is read as it stands, anything else becomes NaT
to_datetime(c) ==
    IF isna(c) THEN NaT
    ELSE CASE c.text = "01/02/2024 10:00:00" -> Timestamp("2024-01-02 10:00:00")
           [] c.text = "2024-01-02 10:00:00" -> Timestamp("2024-01-02 10:00:00")
           [] c.text = "2024-02-01 10:00:00" -> Timestamp("2024-02-01 10:00:00")
           [] OTHER                          -> NaT

\* df[col].dt.strftime(DATETIME_FORMAT_ISO).where(df[col].notnull(), None)
strftime_where(c) == IF isna(c) THEN None ELSE Str(c.text)

convert_dates(t) ==
    [n \in DOMAIN t |->
        IF n \in DATE_COLUMNS
        THEN [i \in DOMAIN t[n] |-> strftime_where(to_datetime(t[n][i]))]
        ELSE t[n]]

\* df[col].fillna(0)
fillna0(c) == IF isna(c) THEN Num("0") ELSE c

IsNumeral(x) == x \in {"0", "123"}

\* .astype('Int64') raises on a text that is no integer; a column that mixes
\* integer texts with numbers is cast by a lenient pandas and refused by a
\* strict one
astype_Int64_raises(col, lenient) ==
    \/ \E i \in DOMAIN col : col[i].kind = "str" /\ ~IsNumeral(col[i].text)
    \/ /\ ~lenient
       /\ \E i \in DOMAIN col : col[i].kind = "str"
       /\ \E i \in DOMAIN col : col[i].kind = "number"

\* .astype(str)
astype_str(c) == Str(c.text)

\* .astype('Int64').astype(str).replace('0', None)
convert_id(c) ==
    LET text == astype_str([kind |-> "number", text |-> c.text])
    IN  IF text = Str("0") THEN None ELSE text

convert_ids(t) ==
    [n \in DOMAIN t |->
        IF n \in id_cols
        THEN [i \in DOMAIN t[n] |-> convert_id(fillna0(t[n][i]))]
        ELSE t[n]]

\* df["priorizacao_dispatching"] = df["priorizacao_dispatching"].astype(str)
stringify_priorizacao(t) ==
    [n \in DOMAIN t |->
        IF n = "priorizacao_dispatching"
        THEN [i \in DOMAIN t[n] |-> astype_str(t[n][i])]
        ELSE t[n]]

\* df.replace({pd.NA: None, "nan": None, "None": None, "": None, "NaT": None})
replace_sentinel(c) ==
    IF isna(c) \/ (c.kind = "str" /\ c.text \in {"nan", "None", "", "NaT"})
    THEN None ELSE c

replace_sentinels(t) ==
    [n \in DOMAIN t |-> [i \in DOMAIN t[n] |-> replace_sentinel(t[n][i])]]

\* df.select_dtypes(include=['object']): a column holding texts or None
is_object(col) == \E i \in DOMAIN col : col[i].kind = "str" \/ col[i] = None

\* the stringification without the replace that follows it
normalize_text_cell_keep(c) == astype_str(c)

\* df[text_cols].astype(str).replace("None", None), cell by cell
normalize_text_cell(c) ==
    IF astype_str(c) = Str("None") THEN None ELSE astype_str(c)

normalize_text(t) ==
    [n \in DOMAIN t |->
        IF is_object(t[n])
        THEN [i \in DOMAIN t[n] |-> normalize_text_cell(t[n][i])]
        ELSE t[n]]

\* _process_dataframe(df): the exception it raises, or the table it returns
process_dataframe(t, ut, lenient) ==
    LET renamed == rename_columns(t) IN
    IF insert_raises(renamed, ut) THEN [raises |-> "ValueError", df |-> t]
    ELSE
    LET dated == convert_dates(insert_update_time(renamed, ut)) IN
    IF \E n \in id_cols \cap DOMAIN dated :
          astype_Int64_raises([i \in DOMAIN dated[n] |-> fillna0(dated[n][i])], lenient)
    THEN [raises |-> "TypeError", df |-> t]
    ELSE
    LET ids == convert_ids(dated) IN
    IF "priorizacao_dispatching" \notin DOMAIN ids
    THEN [raises |-> "KeyError", df |-> t]
    ELSE [raises |-> "none",
          df |-> normalize_text(replace_sentinels(stringify_priorizacao(ids)))]

InitNorm ==
    /\ raw_df \in Tables
    /\ df = raw_df
    /\ applied = 0
    /\ raised = "none"

\* a handler that normalizes nothing
InitNormUnused ==
    /\ raw_df = BuildTable(<<>>, <<>>, <<>>, <<>>, <<>>)
    /\ df = raw_df
    /\ applied = 0
    /\ raised = "none"

\* df = self._process_dataframe(df), on the table in hand
process_dataframe_apply ==
    /\ raised = "none"
    /\ applied < MaxApplications
    /\ applied' = applied + 1
    /\ \E lenient \in BOOLEAN :
          LET out == process_dataframe(df, update_time, lenient) IN
             /\ raised' = out.raises
             /\ df' = out.df
    /\ UNCHANGED <<raw_df, scraperVars, directory, content, update_time,
                   column_types_cache, calls, lpc, file_path, target, loopVars,
                   failure, result, delVars>>

----------------------------------------------------------------------------
(* Specifications *)

ControllerStep ==
    \/ execute_process_4field_call
    \/ setup_start_engine
    \/ setup_mkdir
    \/ setup_launch_context
    \/ setup_init_script
    \/ setup_page
    \/ login_goto
    \/ cond_resolve
    \/ cond_throw
    \/ tick
    \/ wait_for_page_return
    \/ wait_for_page_timeout
    \/ login_after_wait_login
    \/ login_fill
    \/ login_submit
    \/ login_after_wait_home
    \/ execute_if_login
    \/ export_nav_click
    \/ loader_wait_visible
    \/ loader_wait_hidden
    \/ export_after_loader
    \/ export_after_wait_view
    \/ export_expect_download
    \/ export_click_icon
    \/ export_await_download
    \/ export_save
    \/ export_validate
    \/ export_delete
    \/ execute_return
    \/ close_context
    \/ close_engine
    \/ close_return

\* the controller driven by any caller
Init == InitController /\ caller = "free" /\ InitHandlerUnused /\ InitNormUnused

Next ==
    \/ ControllerStep
    \/ caller_after_execute
    \/ close_call

Spec == Init /\ [][Next]_vars

\* the controller driven by main(); asyncio runs main to its end
InitMain == InitController /\ caller = "main" /\ InitHandlerUnused /\ InitNormUnused

NextMain ==
    \/ ControllerStep
    \/ main_after_execute
    \/ main_sleep
    \/ main_finally

SpecMain == InitMain /\ [][NextMain]_vars /\ WF_vars(NextMain)

\* the file handler, on any directory and any file
InitLoader == InitController /\ caller = "free" /\ InitHandler /\ InitNormUnused

NextLoader ==
    \/ process_most_recent_file_call
    \/ find_most_recent_file
    \/ load_to_dataframe
    \/ load_small_csv_read
    \/ load_small_csv_process
    \/ load_large_csv_sample
    \/ load_large_csv_chunk
    \/ process_most_recent_file_return

SpecLoader == InitLoader /\ [][NextLoader]_vars

\* the file handler used to load and then delete, while files arrive
NextDelete ==
    \/ NextLoader
    \/ delete_most_recent_file
    \/ file_arrives

SpecDelete == InitLoader /\ [][NextDelete]_vars

\* the normalizer, on any table, with and without a run timestamp
InitNormalizer ==
    /\ InitController
    /\ caller = "free"
    /\ directory = [n \in Names |-> 0]
    /\ content = CHOOSE c \in Contents : c.shape = "empty" /\ ~c.utf8 /\ c.chunks = <<>>
    /\ update_time \in {"None", "2024-02-01 10:00:00"}
    /\ column_types_cache = EmptyCache
    /\ calls = 0
    /\ lpc = "idle"
    /\ file_path = "None"
    /\ target = "None"
    /\ encIdx = 1
    /\ successful_encoding = "None"
    /\ chunkIdx = 1
    /\ total_rows = 0
    /\ processed = 0
    /\ chunks = <<>>
    /\ reader = NoReader
    /\ consumed = {}
    /\ delResult = "pending"
    /\ failure = "none"
    /\ result = NoResult
    /\ InitNorm

NextNormalizer == process_dataframe_apply

SpecNormalizer == InitNormalizer /\ [][NextNormalizer]_vars

----------------------------------------------------------------------------
(* Properties of the browser session controller *)

Positions(op, what) ==
    {i \in DOMAIN events : events[i].op = op /\ events[i].target = what}

FailedFills ==
    {i \in DOMAIN events : events[i].op = "fill" /\ ~events[i].ok}

\* wait_for ended with asyncio.TimeoutError: the wait returned although
\* _load_page_coroutines had neither returned nor raised
TimedOut == pc = "wait_returned" /\ load_page_coroutines(cond) = "pending"

AllResolved == \A t \in DOMAIN cond : cond[t] = "resolved"
SomeThrown == \E t \in DOMAIN cond : cond[t] = "thrown"
SomePending == \E t \in DOMAIN cond : cond[t] = "pending"
ProbeFound == \E e \in DOMAIN probe : probe[e] = "present"

\* C1: in every run of main, whichever step fails or raises, close() is invoked
\* exactly once, eventually, and only after the workflow steps have stopped
\* (execute_process_4field has returned or raised).
TeardownAlwaysReached ==
    /\ [](closes <= 1 /\ (closes = 1 => execResult # "pending"))
    /\ <>(closes = 1 /\ pc \in {"done", "crashed"})

\* a run of main in which the navigation click raised out of the workflow and
\* close() was invoked all the same
TeardownAfterRaise ==
    caller = "main" /\ execResult = "raised" /\ closes = 1 /\ pc = "close_returned"

\* C3: execute_process_4field reports success only if export-and-download
\* produced a validated file path.
SuccessOnlyIfValidated ==
    execResult = "True" => exportResult = "path"

\* C4: no workflow step raises: _login ends with a boolean and _export_data
\* with a path or nothing, whichever page action fails.
StepsNeverRaise ==
    /\ loginResult \in {"pending", "True", "False"}
    /\ exportResult \in {"pending", "path", "None"}
    /\ execResult # "raised"

ThrowDoesNotAbortOthers ==
    (pc = "wait_returned" /\ SomeThrown) =>
        /\ wpResult = "False"
        /\ ~SomePending \/ now = PageTimeout

\* C7: login is fail-fast over login_input then password_input: no field is
\* filled twice, the password is filled only after the login field was filled,
\* submit is clicked only after both were filled, and a fill that fails is the
\* last page action of the run and makes _login return False.
LoginFailFast ==
    /\ \A k \in DOMAIN Credentials :
          Cardinality(Positions("fill", Credentials[k])) <= 1
    /\ \A j \in Positions("fill", "password_input") :
          \E i \in Positions("fill", "login_input") : i < j /\ events[i].ok
    /\ \A c \in Positions("click", "submit_button") :
          \A k \in DOMAIN Credentials :
             \E i \in Positions("fill", Credentials[k]) : i < c /\ events[i].ok
    /\ \A i \in FailedFills :
          /\ i = Len(events)
          /\ loginResult = "False"

\* the password field could not be filled, after the login field was
FailedPasswordFill ==
    /\ loginResult = "False"
    /\ \E i \in FailedFills : events[i].target = "password_input"

\* C8: wait-for-loader returns failure exactly when the indicator appeared
\* within the grace window and did not disappear within the long bound; when
\* it did not appear the result is success and disappearance is never awaited.
LoaderOutcome ==
    pc = "loader_returned" =>
        /\ loaderResult = "False" <=> (loader.appeared = "yes" /\ loader.gone = "no")
        /\ loaderResult \in {"True", "False"}
        /\ loader.appeared = "no" =>
              /\ loaderResult = "True"
              /\ loader.gone = "unknown"
              /\ Positions("wait_hidden", "main_loader") = {}

\* the indicator never appeared and wait-for-loader returned
LoaderNeverAppeared ==
    pc = "loader_returned" /\ loader.appeared = "no"

\* C9: when the validator rejects the download, _export_data returns nothing
\* and the file saved at final_path no longer exists.
RejectedDownloadIsDiscarded ==
    (pc = "exec_return_true" /\ validResult \in {"False", "None"}) =>
        /\ exportResult = "None"
        /\ savedFile = "absent"

\* C10: close() never raises, and a close() that follows a close() changes
\* nothing: the controller is in the same Closed state as after the first.
InClose == pc \in {"close_context", "close_engine", "close_returned"}

CloseSilentAndIdempotent ==
    [][ /\ closeResult' \in {"pending", "clean", "error_logged"}
        /\ (InClose /\ lastOp = "close") => UNCHANGED <<ctrlVars, resVars>> ]_vars

\* C11: a controller never holds more than one automation engine and one
\* browser context that were started and not yet closed, whatever sequence of
\* workflow runs and close() calls is made on it.
OneLiveSession ==
    /\ Cardinality(enginesLive) <= 1
    /\ Cardinality(contextsLive) <= 1

\* close() has returned after self.context.close() raised: the context the
\* controller holds is still open
ContextCloseFailed ==
    /\ pc = "close_returned"
    /\ context # 0
    /\ context \in contextsLive

\* C21: after close() returns, every acquired resource is released: an engine
\* that was started has been stopped and a launched context has been closed,
\* even when closing the context itself fails. Stated for that case: a close()
\* whose context.close() raised has still stopped the engine it holds.
ReleasedAfterClose ==
    ContextCloseFailed => playwright_engine \notin enginesLive

\* the recorded page actions of one run, by operation, target and outcome
Done(op, what, ok) ==
    {i \in Positions(op, what) : events[i].ok = ok}

LoaderSucceeded ==
    Done("wait_visible", "main_loader", FALSE) \cup Done("wait_hidden", "main_loader", TRUE)

Before(earlier, later) ==
    \A j \in later : \E i \in earlier : i < j

\* the page actions of _login
LoginStep(e) ==
    \/ e.op \in {"goto", "fill"}
    \/ e.op = "click" /\ e.target = "submit_button"
    \/ e.op = "wait_for_page" /\ e.target \in {"login", "home"}

\* the steps of the export whose failure ends it
ExportStep(e) ==
    \/ e.op \in {"wait_hidden", "listen", "download", "save"}
    \/ e.op = "click" /\ e.target \in {"fn_backlog", "export_icon"}
    \/ e.op = "wait_for_page" /\ e.target = "view"

\* the export steps performed so far came in the order of _export_data
OrderedSoFar ==
    (\E i \in DOMAIN events : ~LoginStep(events[i])) =>
        /\ loginResult = "True"
        /\ Before(Done("click", "fn_backlog", TRUE),
                  Positions("wait_visible", "main_loader"))
        /\ Before(Done("wait_visible", "main_loader", TRUE),
                  Positions("wait_hidden", "main_loader"))
        /\ Before(LoaderSucceeded, Positions("wait_for_page", "view"))
        /\ Before(Done("wait_for_page", "view", TRUE), Positions("listen", "download"))
        /\ Before(Done("listen", "download", TRUE), Positions("click", "export_icon"))
        /\ Before(Done("click", "export_icon", TRUE), Positions("download", "download"))
        /\ Before(Done("download", "download", TRUE), Positions("save", "final_path"))
        /\ Before(Done("save", "final_path", TRUE), Positions("validate", "final_path"))
        /\ Before(Positions("validate", "final_path"), Positions("delete", "download"))
        /\ \A i \in DOMAIN events :
              (ExportStep(events[i]) /\ ~events[i].ok) => i = Len(events)

\* C20: the export control is clicked only after login returned success, the
\* navigation click was made, wait-for-loader returned success and
\* wait-for-page on the view returned success; the download listener is
\* registered before the export click; the download is saved only after it
\* completed and validated only after it was saved; a step that fails is
\* followed by none of the later steps.
\* The order holds after every step that performs a page action or ends
\* _login (it holds of the empty run the controller starts with).
ExportOrdering ==
    [][<<events, loginResult>>' # <<events, loginResult>> => OrderedSoFar']_vars

\* a run that went through the whole export: the saved download was validated
ExportCompleted ==
    /\ pc = "exec_return_true"
    /\ exportResult = "path"
    /\ Done("validate", "final_path", TRUE) # {}

----------------------------------------------------------------------------
(* Properties of the file handler *)

\* the load cannot succeed on this input: the target is missing, no candidate
\* encoding reads the file, or normalizing the file (or one of its chunks, or
\* reading a chunk with the cached types) raises
LoadMustFail ==
    \/ target = "None"
    \/ target # "None" /\ directory[target] = 0
    \/ \A k \in DOMAIN Encodings :
          read_csv(content, Encodings[k], should_use_chunks(content.size)) # "ok"
    \/ process_dataframe_raises(content.header, Range(content.chunks), update_time)
    \/ should_use_chunks(content.size) /\ "bad_dtype" \in Range(content.chunks)

\* C2: process_most_recent_file never raises to its caller: it always returns
\* a FileProcessingResult, and on every failure (no matching file, no encoding
\* that reads, a parse error, an exception while normalizing the file or one
\* of its chunks) the result has success = false and no table.
AlwaysAResult ==
    /\ lpc # "raised"
    /\ lpc = "returned" =>
          /\ result.sucess \in {"True", "False"}
          /\ LoadMustFail => result = Failed
          /\ failure # "none" => result = Failed

\* a large-file load that failed while normalizing a chunk after the first
ChunkFailureReturned ==
    /\ lpc = "returned"
    /\ failure = "Normalization"
    /\ processed >= 1
    /\ result.sucess = "False"

\* C12: a failure while normalizing a chunk of a large-file load aborts the
\* load: the chunks after it are neither read nor normalized, and the result
\* has success = false, no table and chunks_processed = 0, whatever was
\* accumulated before.
ChunkFailureAborts ==
    (lpc \in {"returned", "idle"} /\ failure = "Normalization"
        /\ successful_encoding # "None") =>
        /\ result.sucess = "False"
        /\ result.dataframe = NoDataFrame
        /\ result.chunks_processed = 0
        /\ chunkIdx \in 1..Len(content.chunks)
        /\ Len(chunks) = chunkIdx - 1
        /\ process_dataframe_raises(content.header, {content.chunks[chunkIdx]},
                                    update_time)

\* the first chunk of a large file failed to normalize and the load returned
\* with a later chunk left unread
LaterChunkUnread ==
    /\ lpc = "returned"
    /\ failure = "Normalization"
    /\ successful_encoding # "None"
    /\ chunkIdx < Len(content.chunks)

\* C13: in the small-file read and in the sampling pass of a large-file load
\* the candidate encodings are attempted in list order; the encoding used is
\* the first candidate that parses; a candidate that fails with a decode
\* error or a structural parse error is skipped for the next one, so that the
\* read ends on such an error only after the last candidate.
Reading == lpc \in {"small_read", "large_sample"}
ReadDone == lpc \in {"small_process", "large_chunk"}
ReadFailed ==
    lpc = "returned" /\ successful_encoding = "None" /\ failure \in {"Parse", "Encoding"}
Attempt(k) == read_csv(content, Encodings[k], should_use_chunks(content.size))

EncodingFallback ==
    /\ (Reading \/ ReadDone \/ ReadFailed) =>
          \A k \in 1..(encIdx - 1) : Attempt(k) # "ok"
    /\ ReadDone => Attempt(encIdx) = "ok"
    /\ (ReadFailed /\ Attempt(encIdx) \in {"UnicodeDecodeError", "ParserError"}) =>
          encIdx = Len(Encodings)

\* C14: for every file size the chunked path is executed if and only if the
\* size exceeds 10 MiB or the estimated row count size / 1 KiB exceeds 10000
\* (size / 1024 > 10000 is size > 10000 * 1024); otherwise the small-file
\* path is executed; one load runs exactly one of the two paths.
ChunkedExpected == content.size > 10 * 1024 * 1024 \/ content.size > 10000 * 1024

StrategySelection ==
    /\ [](/\ lpc \in {"large_sample", "large_chunk"} => ChunkedExpected
          /\ lpc \in {"small_read", "small_process"} => ~ChunkedExpected
          /\ (successful_encoding # "None" \/ chunks # <<>>) => ChunkedExpected)
    /\ [][(lpc = "load_stat" /\ lpc' \notin {"load_stat", "returned"}) =>
             lpc' = IF ChunkedExpected THEN "large_sample" ELSE "small_read"]_vars
    /\ [][(lpc \in {"small_read", "small_process"}) =>
             lpc' \in {"small_read", "small_process", "returned"}]_vars
    /\ [][(lpc \in {"large_sample", "large_chunk"}) =>
             lpc' \in {"large_sample", "large_chunk", "returned"}]_vars

\* a file of at most 10 MiB whose estimated row count exceeds the threshold is
\* being loaded in chunks
ChunkedByRowEstimate ==
    /\ lpc = "large_chunk"
    /\ content.size <= 10 * 1024 * 1024

\* C15: on a successful large-file load the table holds the rows of the file
\* in their original order, its row count is the sum of the row counts of the
\* chunks, chunks_processed is the number of chunks read, and the row count
\* is the one the small-file path produces for the same content.
LargeLoadSucceeded ==
    lpc = "returned" /\ successful_encoding # "None" /\ result.sucess = "True"

SmallLoadSucceeded ==
    lpc = "returned" /\ successful_encoding = "None" /\ result.sucess = "True"

RECURSIVE SumRows(_, _)
SumRows(c, n) == IF n = 0 THEN 0 ELSE chunk_rows(c, n) + SumRows(c, n - 1)

ChunkBoundaryIndependence ==
    /\ LargeLoadSucceeded =>
          /\ result.dataframe.is = "DataFrame"
          /\ result.dataframe.rows = [i \in 1..Len(content.chunks) |-> i]
          /\ len(content, result.dataframe.rows) = SumRows(content, Len(content.chunks))
          /\ total_rows = len(content, result.dataframe.rows)
          /\ result.chunks_processed = Len(content.chunks)
          /\ len(content, result.dataframe.rows) = len(content, read_whole(content))
    /\ SmallLoadSucceeded =>
          /\ result.dataframe = DataFrame(read_whole(content))
          /\ len(content, result.dataframe.rows) = SumRows(content, Len(content.chunks))

\* a large file of two chunks, the second one partly filled, was loaded
TwoChunksLoaded ==
    /\ LargeLoadSucceeded
    /\ Len(content.chunks) = 2
    /\ content.lastRows = 1
    /\ total_rows = CHUNK_SIZE + 1

\* C19: file discovery selects, among the files of the downloads directory
\* whose name starts with the prefix, one with the greatest modification time,
\* and raises NotFound when no file matches: no target is handed on then.
Searched == file_path = "None" /\ calls >= 1 /\ lpc # "find"

Matching == {n \in Names : directory[n] > 0}

SchemaCaptured ==
    /\ lpc = "large_sample"
    /\ lpc' = "large_chunk"
    /\ read_csv(content, Encodings[encIdx], TRUE) = "ok"
    /\ column_types_cache' = Schema(calls, Encodings[encIdx])

\* C24: during a large-file load the cached column types are captured exactly
\* once, by the sampling pass with the encoding that succeeded, and do not
\* change from then until the load returns: every chunk of the load is read
\* with that schema and that encoding, never with a schema captured by an
\* earlier load or by a failed encoding attempt.
SchemaCapturedOnce ==
    /\ [](lpc = "large_chunk" =>
            /\ reader.dtype = column_types_cache
            /\ reader.dtype = Schema(calls, successful_encoding)
            /\ reader.encoding = successful_encoding
            /\ read_csv(content, successful_encoding, TRUE) = "ok")
    /\ [][column_types_cache' # column_types_cache => SchemaCaptured]_vars
    /\ [][lpc = "large_sample" /\ lpc' = "large_chunk" => SchemaCaptured]_vars

\* the second load of a handler reads a chunk after the first one, with the
\* schema its own sampling pass captured
SecondLoadReadsChunks ==
    /\ lpc = "large_chunk"
    /\ calls = 2
    /\ Len(chunks) >= 1
    /\ reader.dtype.load = 2

----------------------------------------------------------------------------
(* Properties of the schema normalizer *)

\* C16: normalization is idempotent: with or without a run timestamp,
\* applying _process_dataframe to a table it returned raises nothing and
\* returns the same table.
NormalizationIdempotent ==
    [][(applied >= 1 /\ raised = "none") => (raised' = "none" /\ df' = df)]_vars

\* C17: the table read from a file with the header `Id 4Field;Criacao do NTT`
\* and the rows `123;01/02/2024 10:00:00` and `;` normalizes, with no run
\* timestamp, to the columns id_4field and criacao_do_ntt holding
\* ("123", "2024-02-01 10:00:00") and (null, null).
ScenarioTable ==
    BuildTable(<<Num("123"), NaN>>, <<Str("01/02/2024 10:00:00"), NaN>>,
               <<>>, <<>>, <<>>)

ScenarioNormalizes ==
    (raw_df = ScenarioTable /\ update_time = "None" /\ applied >= 1) =>
        /\ raised = "none"
        /\ DOMAIN df = {"id_4field", "criacao_do_ntt"}
        /\ df["id_4field"][1] = Str("123")
        /\ df["criacao_do_ntt"][1] = Str("2024-02-01 10:00:00")
        /\ isna(df["id_4field"][2])
        /\ isna(df["criacao_do_ntt"][2])

\* C18: after a normalization no cell of the table is one of the texts "nan",
\* "None", "" and "NaT", and every cell that held one of them, or was null,
\* before the normalization is null after it.
Sentinels == {"nan", "None", "", "NaT"}

IsSentinel(c) == c.kind = "str" /\ c.text \in Sentinels

NoSentinelSurvives ==
    (applied >= 1 /\ raised = "none") =>
        /\ \A n \in DOMAIN df : \A i \in DOMAIN df[n] : ~IsSentinel(df[n][i])
        /\ \A n \in DOMAIN raw_df : \A i \in DOMAIN raw_df[n] :
              (IsSentinel(raw_df[n][i]) \/ isna(raw_df[n][i])) => isna(df[Rename(n)][i])

\* a table with the text "None" in one cell and the text "NaT" in another was
\* normalized once
SentinelsNormalized ==
    /\ applied = 1
    /\ raised = "none"
    /\ "Obs" \in DOMAIN raw_df
    /\ raw_df["Obs"][1] = Str("None")
    /\ raw_df["Obs"][2] = Str("NaT")

\* the reading of a DD/MM/YYYY HH:MM:SS text with the day first, as
\* YYYY-MM-DD HH:MM:SS
DayFirstISO(text) ==
    CASE text = "01/02/2024 10:00:00" -> "2024-02-01 10:00:00"

DayFirstTexts == {"01/02/2024 10:00:00"}

\* C22: date normalization reads source values day first: a value
\* DD/MM/YYYY HH:MM:SS of a date column, also one with DD <= 12, becomes the
\* text YYYY-MM-DD HH:MM:SS of the same day, month, year and time, and a value
\* that cannot be parsed becomes null.
DatesParsedDayFirst ==
    (applied = 1 /\ raised = "none") =>
        \A n \in DOMAIN raw_df : Rename(n) \in DATE_COLUMNS =>
            \A i \in DOMAIN raw_df[n] :
                LET before == raw_df[n][i]
                    after  == df[Rename(n)][i]
                IN  IF before.kind = "str" /\ before.text \in DayFirstTexts
                    THEN after = Str(DayFirstISO(before.text))
                    ELSE isna(after)

\* a table whose identifier column holds a text that is no integer, and that
\* has the column of line 184 and no column named update_time
UncastableId ==
    /\ {"Id 4Field", "Priorizacao Dispatching"} \subseteq DOMAIN raw_df
    /\ "update_time" \notin DOMAIN raw_df
    /\ \E i \in DOMAIN raw_df["Id 4Field"] : raw_df["Id 4Field"][i] = Str("abc")

\* C23: a failure to cast one designated column is recovered locally: when an
\* identifier column holds a value that cannot be cast to an integer, the
\* normalization still returns a table, that column is left as it was and
\* every other column is normalized.
CastFailureRecovered ==
    (applied = 1 /\ UncastableId) =>
        /\ raised = "none"
        /\ df["id_4field"] = raw_df["Id 4Field"]
        /\ \A n \in DOMAIN df \ {"id_4field"} :
              \A i \in DOMAIN df[n] : ~IsSentinel(df[n][i])

\* the files a step removes from the downloads directory
Removed == {n \in Names : directory[n] > 0 /\ directory'[n] = 0}

\* C25: delete_most_recent_file removes only a file that ingestion has already
\* consumed, under any interleaving with arriving files and also when
\* process_most_recent_file was given an explicit path: a file that was never
\* processed is never deleted, and the function returns True when a file was
\* removed and False otherwise.
DeleteOnlyConsumed ==
    [][ /\ Removed \subseteq consumed
        /\ delResult' \in {"pending", "True", "False"}
        /\ delResult' # delResult => (delResult' = "True" <=> Removed # {}) ]_vars

====
